---------------------------- MODULE Spec2Model ----------------------------
(***************************************************************************)
(* A model of package rich (src/rich.go): the markup-tag parser with its   *)
(* style stack, the style registry and lookup, the keyword highlighter and *)
(* the value formatter with the variadic print routine.                    *)
(*                                                                         *)
(* A Go string is a sequence of one-character strings; the byte 0x1b is    *)
(* the character ESC.                                                      *)
(***************************************************************************)
EXTENDS Integers, Sequences, FiniteSets, TLC

VARIABLES
    pc,         \* where the running call stands
    str,        \* the string passed to parseTags or formatString
    result,     \* the string the call returns
    \* parseTags
    segments, i, tags, rest, stack,
    round,      \* 1: the caller's string, 2: the result parsed again
    first,      \* the result of round 1
    seen,       \* history: the tokens applied so far
    pushes,     \* history: the appends to the stack
    pops,       \* history: the removals from the stack
    \* getStyle
    styleName,
    \* colorizeKeywords
    text,       \* input, as the passes rewrite it
    todo,       \* the keywords the range over the map has not yet yielded
    \* the print routine
    args, formattedStrings, order, output

parseVars == <<segments, i, tags, rest, stack, round, first,
               seen, pushes, pops>>

colorVars == <<text, todo>>

printVars == <<args, formattedStrings, order, output>>

vars == <<pc, str, result, parseVars, styleName, colorVars, printVars>>

\* what the calls of parseTags leave alone
others == <<styleName, colorVars, printVars>>

(***************************************************************************)
(* Bounds of the model.                                                    *)
(***************************************************************************)
MaxLen == 5
MaxPieces == 3
MaxSliceLen == 3

(***************************************************************************)
(* Characters and the string functions of the Go library the code calls.   *)
(***************************************************************************)
ESC == "ESC"

\* U+017F, the long s, and U+212A, the Kelvin sign: no ASCII letters, but
\* unicode.SimpleFold puts them in the orbits of s and k
LongS == "U+017F"
Kelvin == "U+212A"

LowerLetters ==
    <<"a","b","c","d","e","f","g","h","i","j","k","l","m",
      "n","o","p","q","r","s","t","u","v","w","x","y","z">>

UpperLetters ==
    <<"A","B","C","D","E","F","G","H","I","J","K","L","M",
      "N","O","P","Q","R","S","T","U","V","W","X","Y","Z">>

Digits == <<"0","1","2","3","4","5","6","7","8","9">>

Range(s) == {s[k] : k \in 1..Len(s)}

IsUpper(c) == c \in Range(UpperLetters)

\* unicode.ToLower on one character
ToLowerChar(c) ==
    IF IsUpper(c)
    THEN LowerLetters[CHOOSE k \in 1..Len(UpperLetters) : UpperLetters[k] = c]
    ELSE IF c = Kelvin THEN "k"
    ELSE c

ToUpperChar(c) ==
    IF c \in Range(LowerLetters)
    THEN UpperLetters[CHOOSE k \in 1..Len(LowerLetters) : LowerLetters[k] = c]
    ELSE c

\* strings.ToLower
ToLower(s) == [k \in 1..Len(s) |-> ToLowerChar(s[k])]

\* unicode.IsSpace, as strings.Fields uses it
IsSpace(c) == c \in {" ", "\t", "\n", "\r"}

\* strings.Index for a one-character separator; 0 when absent
Index(s, c) ==
    IF \E k \in 1..Len(s) : s[k] = c
    THEN CHOOSE k \in 1..Len(s) : s[k] = c /\ \A j \in 1..(k-1) : s[j] # c
    ELSE 0

\* strings.Split(s, sep) for a one-character separator
RECURSIVE Split(_, _)
Split(s, sep) ==
    LET k == Index(s, sep)
    IN  IF k = 0 THEN <<s>>
        ELSE <<SubSeq(s, 1, k-1)>> \o Split(SubSeq(s, k+1, Len(s)), sep)

SplitNAlways(s, sep) ==
    LET k == Index(s, sep)
    IN  IF k = 0 THEN <<s, <<>>>>
        ELSE <<SubSeq(s, 1, k-1), SubSeq(s, k+1, Len(s))>>

\* strings.SplitN(s, sep, 2) for a one-character separator
SplitN(s, sep) ==
    LET k == Index(s, sep)
    IN  IF k = 0 THEN <<s>>
        ELSE <<SubSeq(s, 1, k-1), SubSeq(s, k+1, Len(s))>>

\* strings.Fields
RECURSIVE Fields(_)
Fields(s) ==
    IF s = <<>> THEN <<>>
    ELSE IF IsSpace(s[1]) THEN Fields(Tail(s))
    ELSE LET sp == {k \in 1..Len(s) : IsSpace(s[k])}
             e  == IF sp = {} THEN Len(s) + 1
                   ELSE CHOOSE k \in sp : \A j \in sp : k <= j
         IN  <<SubSeq(s, 1, e-1)>> \o Fields(SubSeq(s, e, Len(s)))

\* strings.Trim(s, cutset)
RECURSIVE TrimLeft(_, _)
TrimLeft(s, cutset) ==
    IF s # <<>> /\ s[1] \in cutset THEN TrimLeft(Tail(s), cutset) ELSE s

RECURSIVE TrimRight(_, _)
TrimRight(s, cutset) ==
    IF s # <<>> /\ s[Len(s)] \in cutset
    THEN TrimRight(SubSeq(s, 1, Len(s)-1), cutset) ELSE s

Trim(s, cutset) == TrimRight(TrimLeft(s, cutset), cutset)

\* strings.HasPrefix
HasPrefix(s, p) == Len(s) >= Len(p) /\ SubSeq(s, 1, Len(p)) = p

\* strings.Join
RECURSIVE Join(_, _)
Join(ss, sep) ==
    IF ss = <<>> THEN <<>>
    ELSE IF Len(ss) = 1 THEN ss[1]
    ELSE ss[1] \o sep \o Join(Tail(ss), sep)

(***************************************************************************)
(* The style registry.                                                     *)
(***************************************************************************)
Style(n, c, col) == [Name |-> n, Code |-> c, IsColor |-> col]

stylesBold ==
    << Style(<<"r","e","s","e","t">>,         <<"0">>,     FALSE),
       Style(<<"u","n","s","t","y","l","e">>, <<"2","2">>, FALSE),
       Style(<<"b","o","l","d">>,             <<"1">>,     FALSE),
       Style(<<"i">>,                         <<"3">>,     FALSE),
       Style(<<"u">>,                         <<"4">>,     FALSE),
       Style(<<"s">>,                         <<"9">>,     FALSE),
       Style(<<"b","l","i","n","k">>,         <<"5">>,     FALSE),
       Style(<<"x">>,                         <<"7">>,     FALSE),
       Style(<<"w","h","i","t","e">>,         <<"9","7">>, TRUE),
       Style(<<"g","r","a","y">>,             <<"3","7">>, TRUE),
       Style(<<"r","e","d">>,                 <<"3","1">>, TRUE),
       Style(<<"g","r","e","e","n">>,         <<"3","2">>, TRUE),
       Style(<<"c","y","a","n">>,             <<"3","6">>, TRUE),
       Style(<<"b","l","u","e">>,             <<"3","4">>, TRUE),
       Style(<<"y","e","l","l","o","w">>,     <<"3","3">>, TRUE) >>

styles ==
    << Style(<<"r","e","s","e","t">>,         <<"0">>,     FALSE),
       Style(<<"u","n","s","t","y","l","e">>, <<"2","2">>, FALSE),
       Style(<<"b">>,                         <<"1">>,     FALSE),
       Style(<<"i">>,                         <<"3">>,     FALSE),
       Style(<<"u">>,                         <<"4">>,     FALSE),
       Style(<<"s">>,                         <<"9">>,     FALSE),
       Style(<<"b","l","i","n","k">>,         <<"5">>,     FALSE),
       Style(<<"x">>,                         <<"7">>,     FALSE),
       Style(<<"w","h","i","t","e">>,         <<"9","7">>, TRUE),
       Style(<<"g","r","a","y">>,             <<"3","7">>, TRUE),
       Style(<<"r","e","d">>,                 <<"3","1">>, TRUE),
       Style(<<"g","r","e","e","n">>,         <<"3","2">>, TRUE),
       Style(<<"c","y","a","n">>,             <<"3","6">>, TRUE),
       Style(<<"b","l","u","e">>,             <<"3","4">>, TRUE),
       Style(<<"y","e","l","l","o","w">>,     <<"3","3">>, TRUE) >>

\* init(): a later entry of styles overwrites an earlier one of the same name
styleMap ==
    [n \in {styles[k].Name : k \in 1..Len(styles)} |->
        styles[CHOOSE k \in 1..Len(styles) :
                  /\ styles[k].Name = n
                  /\ \A j \in (k+1)..Len(styles) : styles[j].Name # n]]

getStyleFolded(name) ==
    IF ToLower(name) \in DOMAIN styleMap
    THEN <<ESC, "[">> \o styleMap[ToLower(name)].Code \o <<"m">>
    ELSE <<ESC, "[", "3", "7", "m">>

getStyle(name) ==
    IF name \in DOMAIN styleMap
    THEN <<ESC, "[">> \o styleMap[name].Code \o <<"m">>
    ELSE <<ESC, "[", "3", "7", "m">>

(***************************************************************************)
(* parseTags.                                                              *)
(***************************************************************************)
\* the tag token as the loop body sees it (line 70)
NormTag(tag) == ToLower(Trim(tag, {"[", "]"}))

IsClose(tag) == HasPrefix(NormTag(tag), <<"/">>)

IsOpen(tag) == ~IsClose(tag) /\ NormTag(tag) \in DOMAIN styleMap

ApplyTagOldest(stk, tag) ==
    IF IsClose(tag)
    THEN IF Len(stk) > 0 THEN Tail(stk) ELSE stk
    ELSE IF NormTag(tag) \in DOMAIN styleMap
         THEN Append(stk, styleMap[NormTag(tag)].Code)
         ELSE stk

\* one iteration of the loop over the header's fields (lines 69-78)
ApplyTag(stk, tag) ==
    IF IsClose(tag)
    THEN IF Len(stk) > 0 THEN SubSeq(stk, 1, Len(stk)-1) ELSE stk
    ELSE IF NormTag(tag) \in DOMAIN styleMap
         THEN Append(stk, styleMap[NormTag(tag)].Code)
         ELSE stk

RECURSIVE ApplyTags(_, _)
ApplyTags(stk, fs) ==
    IF fs = <<>> THEN stk ELSE ApplyTags(ApplyTag(stk, fs[1]), Tail(fs))

applyStylingTop(s, stk) ==
    <<ESC, "[">> \o (IF stk = <<>> THEN <<>> ELSE stk[Len(stk)]) \o <<"m">> \o s

applyStyling(s, stk) == <<ESC, "[">> \o Join(stk, <<";">>) \o <<"m">> \o s

\* the loop over the segments from index k on (lines 59-81)
RECURSIVE ParseSegments(_, _, _)
ParseSegments(segs, k, stk) ==
    IF k > Len(segs) THEN segs
    ELSE IF k = 1 THEN ParseSegments(segs, k+1, stk)
    ELSE LET parts == SplitN(segs[k], "]")
         IN  IF Len(parts) # 2 THEN ParseSegments(segs, k+1, stk)
             ELSE LET stk2 == ApplyTags(stk, Fields(parts[1]))
                  IN  ParseSegments(
                          [segs EXCEPT ![k] = applyStyling(parts[2], stk2)],
                          k+1, stk2)

parseTags(s) == Join(ParseSegments(Split(s, "["), 1, <<>>), <<>>)

(***************************************************************************)
(* colorizeKeywords: for each keyword, in the order the range over the     *)
(* map yields them, regexp (?i)(\bkeyword\b) and ReplaceAllStringFunc.     *)
(***************************************************************************)
Success == <<"s","u","c","c","e","s","s">>
Error   == <<"e","r","r","o","r">>
Warning == <<"w","a","r","n","i","n","g">>
Info    == <<"i","n","f","o">>

\* lines 91-96
keywords ==
    (Success :> getStyle(<<"g","r","e","e","n">>)) @@
    (Error   :> getStyle(<<"r","e","d">>)) @@
    (Warning :> getStyle(<<"y","e","l","l","o","w">>)) @@
    (Info    :> getStyle(<<"c","y","a","n">>))

\* the class \w of the regexp: ASCII letters, digits and the underscore
IsWordChar(c) ==
    c \in Range(LowerLetters) \cup Range(UpperLetters) \cup Range(Digits)
          \cup {"_"}

\* \b at the place before s[p], for p in 1..Len(s)+1
WordBoundary(s, p) ==
    LET before == p > 1 /\ IsWordChar(s[p-1])
        after  == p <= Len(s) /\ IsWordChar(s[p])
    IN  before # after

\* (?i): a letter of the pattern matches every character of its orbit
\* under unicode.SimpleFold: both letter cases and, for s, the long s
FoldClass(c) == IF c = LongS THEN "s" ELSE ToLowerChar(c)

FoldEq(a, b) == FoldClass(a) = FoldClass(b)

MatchAtNoLead(s, p, keyword) ==
    /\ p + Len(keyword) - 1 <= Len(s)
    /\ \A k \in 1..Len(keyword) : FoldEq(s[p+k-1], keyword[k])
    /\ WordBoundary(s, p + Len(keyword))

\* the pattern of line 99 matches at s[p]
MatchAt(s, p, keyword) ==
    /\ p + Len(keyword) - 1 <= Len(s)
    /\ \A k \in 1..Len(keyword) : FoldEq(s[p+k-1], keyword[k])
    /\ WordBoundary(s, p)
    /\ WordBoundary(s, p + Len(keyword))

\* lines 100-102: the matches from the left, none overlapping another
RECURSIVE ReplaceFrom(_, _, _, _)
ReplaceFrom(s, p, keyword, colorCode) ==
    IF p > Len(s) THEN <<>>
    ELSE IF MatchAt(s, p, keyword)
    THEN colorCode \o SubSeq(s, p, p + Len(keyword) - 1)
         \o <<ESC, "[", "0", "m">>
         \o ReplaceFrom(s, p + Len(keyword), keyword, colorCode)
    ELSE <<s[p]>> \o ReplaceFrom(s, p + 1, keyword, colorCode)

\* one iteration of the loop of lines 98-103
ReplaceAllKeyword(input, keyword) ==
    ReplaceFrom(input, 1, keyword, keywords[keyword])

\* lines 90-106, the range yielding the keywords in the order ord
RECURSIVE colorizeKeywords(_, _)
colorizeKeywords(input, ord) ==
    IF ord = <<>> THEN input
    ELSE colorizeKeywords(ReplaceAllKeyword(input, ord[1]), Tail(ord))

\* the orders a range over the map keywords may take
KeywordOrders ==
    { o \in [1..Cardinality(DOMAIN keywords) -> DOMAIN keywords] :
          \A a, b \in DOMAIN o : a # b => o[a] # o[b] }

\* lines 125-127, s the value's text under %v
formatString(s, ord) == colorizeKeywords(parseTags(s), ord)

(***************************************************************************)
(* The inputs of parseTags: every string over ParseAlphabet up to MaxLen   *)
(* characters, and the strings the package and its documentation name.     *)
(***************************************************************************)
ParseAlphabet == {"[", "]", "/", " ", "b", "I"}

StringsUpTo(alphabet, n) ==
    UNION {[1..k -> alphabet] : k \in 0..n}

NumberMarkup(digits) ==
    <<"[","c","y","a","n","]","[","b","o","l","d","]">> \o digits \o <<"[","/","]">>

TrueMarkup ==
    <<"[","g","r","e","e","n","]","[","b","o","l","d","]",
      "t","r","u","e","[","/","]">>

FalseMarkup ==
    <<"[","r","e","d","]","[","b","o","l","d","]",
      "f","a","l","s","e","[","/","]">>

NestedExample ==
    <<"[","b","]","[","r","e","d","]","x","[","/","]","[","/","]","y">>

Examples ==
    { NestedExample,
      <<"[","r","e","d","]","x","[","/","]","y">>,
      <<"[","/","]","t","e","x","t">>,
      <<"[","n","o","n","e","x","i","s","t","e","n","t","]","t","e","x","t">>,
      <<"[","R","e","d"," ","B","]","x","[","/","r","e","d","]","y","[","/","]","z">>,
      <<"a","[","b","[","i","]","c">>,
      <<"[","/"," ","b"," ","i"," ","/","b","]","x">>,
      NumberMarkup(<<"4","2">>), NumberMarkup(<<"-","7">>),
      TrueMarkup, FalseMarkup }

ParseInputs == StringsUpTo(ParseAlphabet, MaxLen) \cup Examples

(***************************************************************************)
(* The values handed to the formatter.  A value has a kind, as reflect     *)
(* reports it, and what the kind holds: n for a number, b for a boolean, s *)
(* for a string and, for the kinds the switches do not name (a pointer, an *)
(* array, an error value), the text %v gives; elems for a slice; the       *)
(* entries of a map in the order MapKeys returns the keys; the fields of a *)
(* struct.  Kind "nil" is the absent value.  ro marks a value read from an *)
(* unexported field, whose Interface() panics.                             *)
(***************************************************************************)
Blank ==
    [kind |-> "nil", n |-> 0, b |-> FALSE, s |-> <<>>, elems |-> <<>>,
     entries |-> <<>>, fields |-> <<>>, ro |-> FALSE]

NilVal          == Blank
IntVal(n)       == [Blank EXCEPT !.kind = "int", !.n = n]
BoolVal(b)      == [Blank EXCEPT !.kind = "bool", !.b = b]
StringVal(s)    == [Blank EXCEPT !.kind = "string", !.s = s]
OtherVal(s)     == [Blank EXCEPT !.kind = "other", !.s = s]
SliceVal(es)    == [Blank EXCEPT !.kind = "slice", !.elems = es]
MapVal(es)      == [Blank EXCEPT !.kind = "map", !.entries = es]
StructVal(fs)   == [Blank EXCEPT !.kind = "struct", !.fields = fs]

\* the result of a call: the string returned, or a panic
Ok(s) == [fatal |-> FALSE, out |-> s]
Panic == [fatal |-> TRUE, out |-> <<>>]

\* %v of a non-negative integer
RECURSIVE NatDigits(_)
NatDigits(n) ==
    IF n < 10 THEN <<Digits[n + 1]>>
    ELSE NatDigits(n \div 10) \o <<Digits[(n % 10) + 1]>>

\* fmt.Sprintf("%v", v) for the kinds that have a text
Sprint(v) ==
    CASE v.kind = "int"  -> IF v.n < 0 THEN <<"-">> \o NatDigits(-v.n)
                            ELSE NatDigits(v.n)
      [] v.kind = "bool" -> IF v.b THEN <<"t","r","u","e">>
                            ELSE <<"f","a","l","s","e">>
      [] v.kind = "nil"  -> <<"<","n","i","l",">">>
      [] OTHER           -> v.s

\* lines 129-134
formatBool(v) ==
    IF v.b THEN parseTags(TrueMarkup) ELSE parseTags(FalseMarkup)

\* lines 136-138
formatNumber(v) == parseTags(NumberMarkup(Sprint(v)))

\* a field name is exported when its first letter is upper case
Exported(fname) == fname # <<>> /\ IsUpper(fname[1])

SliceSeparatorAlways(idx, n) == <<",", " ">>

\* lines 159-161, idx counting from 0 as in the source
SliceSeparator(idx, n) == IF idx < n - 1 THEN <<",", " ">> ELSE <<>>

RECURSIVE formatValue(_, _)
RECURSIVE SliceLoop(_, _, _, _)
RECURSIVE MapLoop(_, _, _, _)
RECURSIVE StructLoop(_, _, _, _)

\* lines 156-162 from index k on (k counts from 1), builder the text so far
SliceLoop(v, k, builder, ord) ==
    IF k > Len(v.elems) THEN Ok(builder \o <<" ", "]">>)
    ELSE LET element == formatValue(v.elems[k], ord)
         IN  IF element.fatal THEN Panic
             ELSE SliceLoop(v, k + 1,
                            builder \o element.out
                                    \o SliceSeparator(k - 1, Len(v.elems)),
                            ord)

\* lines 153-165
formatSlice(v, ord) == SliceLoop(v, 1, <<"[", " ">>, ord)

\* lines 143-148 from entry k on
MapLoop(v, k, builder, ord) ==
    IF k > Len(v.entries) THEN Ok(builder \o <<"}">>)
    ELSE LET left_side  == formatValue(v.entries[k].key, ord)
             right_side == formatValue(v.entries[k].val, ord)
         IN  IF left_side.fatal \/ right_side.fatal THEN Panic
             ELSE MapLoop(v, k + 1,
                          builder \o <<" ", " ", "\"">> \o left_side.out
                                  \o <<"\"", ":", " ">> \o right_side.out
                                  \o <<",", "\n">>,
                          ord)

\* lines 140-151
formatMap(v, ord) == MapLoop(v, 1, <<"{", "\n">>, ord)

\* lines 170-174 from field k on
StructLoop(v, k, builder, ord) ==
    IF k > Len(v.fields) THEN Ok(builder \o <<"}">>)
    ELSE LET f     == v.fields[k]
             fname == parseTags(f.name)
             fval  == formatValue(
                          [f.val EXCEPT !.ro = v.ro \/ ~Exported(f.name)], ord)
         IN  IF fval.fatal THEN Panic
             ELSE StructLoop(v, k + 1,
                             builder \o <<" ">> \o fname \o <<":", " ">>
                                     \o fval.out \o <<"\n">>,
                             ord)

\* lines 167-177
formatStruct(v, ord) == StructLoop(v, 1, <<"{", "\n">>, ord)

\* lines 108-123; v.Interface() panics on the absent value and on a value
\* read from an unexported field
formatValue(v, ord) ==
    IF v.kind = "nil" \/ v.ro THEN Panic
    ELSE CASE v.kind = "int"    -> Ok(formatNumber(v))
           [] v.kind = "map"    -> formatMap(v, ord)
           [] v.kind = "slice"  -> formatSlice(v, ord)
           [] v.kind = "struct" -> formatStruct(v, ord)
           [] v.kind = "bool"   -> Ok(formatBool(v))
           [] OTHER             -> Ok(formatString(Sprint(v), ord))

(***************************************************************************)
(* One call of parseTags, a step at a time, and a second call on the       *)
(* result of the first.  seen, pushes and pops are history variables: the  *)
(* tokens applied so far, the appends and the removals.                    *)
(***************************************************************************)
ParseIdle ==
    /\ segments = <<>>
    /\ i = 0
    /\ tags = <<>>
    /\ rest = <<>>
    /\ stack = <<>>
    /\ round = 1
    /\ first = <<>>
    /\ seen = <<>>
    /\ pushes = 0
    /\ pops = 0

ColorIdle ==
    /\ text = <<>>
    /\ todo = {}

PrintIdle ==
    /\ args = <<>>
    /\ formattedStrings = <<>>
    /\ order = <<>>
    /\ output = <<>>

Init ==
    /\ pc = "start"
    /\ str \in ParseInputs
    /\ result = <<>>
    /\ ParseIdle
    /\ styleName = <<>>
    /\ ColorIdle
    /\ PrintIdle

\* lines 56-57
Begin ==
    /\ pc = "start"
    /\ segments' = Split(str, "[")
    /\ stack' = <<>>
    /\ i' = 1
    /\ pc' = "range"
    /\ UNCHANGED <<others, str, tags, rest, result, round, first, seen, pushes, pops>>

\* lines 60-62
SkipLeading ==
    /\ pc = "range"
    /\ i <= Len(segments)
    /\ i = 1
    /\ i' = i + 1
    /\ UNCHANGED <<others, pc, str, segments, tags, rest, stack, result,
                   round, first, seen, pushes, pops>>

\* lines 63-66
SkipUnclosed ==
    /\ pc = "range"
    /\ i <= Len(segments)
    /\ i # 1
    /\ Len(SplitN(segments[i], "]")) # 2
    /\ i' = i + 1
    /\ UNCHANGED <<others, pc, str, segments, tags, rest, stack, result,
                   round, first, seen, pushes, pops>>

\* lines 63-69
Header ==
    /\ pc = "range"
    /\ i <= Len(segments)
    /\ i # 1
    /\ LET parts == SplitN(segments[i], "]")
       IN  /\ Len(parts) = 2
           /\ tags' = Fields(parts[1])
           /\ rest' = parts[2]
    /\ pc' = "fields"
    /\ UNCHANGED <<others, str, segments, i, stack, result, round, first,
                   seen, pushes, pops>>

\* lines 70-74
CloseTag ==
    /\ pc = "fields"
    /\ tags # <<>>
    /\ IsClose(tags[1])
    /\ stack' = ApplyTag(stack, tags[1])
    /\ pops' = IF Len(stack) > 0 THEN pops + 1 ELSE pops
    /\ seen' = Append(seen, tags[1])
    /\ tags' = Tail(tags)
    /\ UNCHANGED <<others, pc, str, segments, i, rest, result, round, first, pushes>>

\* lines 70, 75-77
OpenTag ==
    /\ pc = "fields"
    /\ tags # <<>>
    /\ IsOpen(tags[1])
    /\ stack' = ApplyTag(stack, tags[1])
    /\ pushes' = pushes + 1
    /\ seen' = Append(seen, tags[1])
    /\ tags' = Tail(tags)
    /\ UNCHANGED <<others, pc, str, segments, i, rest, result, round, first, pops>>

\* lines 70-78: neither branch taken
IgnoreTag ==
    /\ pc = "fields"
    /\ tags # <<>>
    /\ ~IsClose(tags[1])
    /\ ~IsOpen(tags[1])
    /\ stack' = ApplyTag(stack, tags[1])
    /\ seen' = Append(seen, tags[1])
    /\ tags' = Tail(tags)
    /\ UNCHANGED <<others, pc, str, segments, i, rest, result, round, first,
                   pushes, pops>>

\* line 80
Render ==
    /\ pc = "fields"
    /\ tags = <<>>
    /\ segments' = [segments EXCEPT ![i] = applyStyling(rest, stack)]
    /\ i' = i + 1
    /\ pc' = "range"
    /\ UNCHANGED <<others, str, tags, rest, stack, result, round, first,
                   seen, pushes, pops>>

\* line 83
Return ==
    /\ pc = "range"
    /\ i > Len(segments)
    /\ result' = Join(segments, <<>>)
    /\ pc' = "done"
    /\ UNCHANGED <<others, str, segments, i, tags, rest, stack, round, first,
                   seen, pushes, pops>>

\* the caller passes the returned string to parseTags again
Reparse ==
    /\ pc = "done"
    /\ round = 1
    /\ first' = result
    /\ str' = result
    /\ round' = 2
    /\ pc' = "start"
    /\ segments' = <<>>
    /\ i' = 0
    /\ tags' = <<>>
    /\ rest' = <<>>
    /\ stack' = <<>>
    /\ result' = <<>>
    /\ seen' = <<>>
    /\ pushes' = 0
    /\ pops' = 0
    /\ UNCHANGED others

Next ==
    \/ Begin
    \/ SkipLeading
    \/ SkipUnclosed
    \/ Header
    \/ CloseTag
    \/ OpenTag
    \/ IgnoreTag
    \/ Render
    \/ Return
    \/ Reparse

Spec == Init /\ [][Next]_vars

\* the step machine and the function agree
StepwiseAgrees == pc = "done" => result = parseTags(str)

(***************************************************************************)
(* What the claims speak of, stated without the loop: the segments of the  *)
(* input, their headers and texts, and the codes a token sequence leaves.  *)
(***************************************************************************)
Orig == Split(str, "[")

HasClose(seg) == "]" \in Range(seg)

HeaderOf(seg) == SubSeq(seg, 1, Index(seg, "]") - 1)

TextOf(seg) == SubSeq(seg, Index(seg, "]") + 1, Len(seg))

RECURSIVE Concat(_)
Concat(ss) == IF ss = <<>> THEN <<>> ELSE ss[1] \o Concat(Tail(ss))

\* the tokens of the headers of segments 2..k that have a header
RECURSIVE TokensUpTo(_, _)
TokensUpTo(segs, k) ==
    IF k < 2 THEN <<>>
    ELSE TokensUpTo(segs, k-1) \o
         (IF HasClose(segs[k]) THEN Fields(HeaderOf(segs[k])) ELSE <<>>)

Count(toks, a, b, P(_)) == Cardinality({m \in a..b : P(toks[m])})

\* the open token at j is still in force after the last token: no later
\* prefix of the tokens holds more closes than opens
Survives(toks, j) ==
    /\ IsOpen(toks[j])
    /\ \A m \in (j+1)..Len(toks) :
          Count(toks, j+1, m, IsClose) <= Count(toks, j+1, m, IsOpen)

DeclStack(toks) ==
    LET idx  == [k \in 1..Len(toks) |-> k]
        live == SelectSeq(idx, LAMBDA j : Survives(toks, j))
    IN  [k \in 1..Len(live) |-> styleMap[NormTag(toks[live[k]])].Code]

Prefix(codes) == <<ESC, "[">> \o Join(codes, <<";">>) \o <<"m">>

NestedRendered ==
    <<ESC,"[","1","m", ESC,"[","1",";","3","1","m","x",
      ESC,"[","1","m", ESC,"[","m","y">>

\* C1: when parseTags returns, every segment after the first '[' that
\* contains a ']' has become ESC[<codes>m followed by the text after that
\* ']', where the codes are those in force after all tokens of the headers
\* up to and including this one, oldest first and joined by ';', and the
\* returned string is the segments in order; "[b][red]x[/][/]y" gives x
\* under 1;31 and y under the empty prefix.
C1_FullStackPrefix ==
    pc = "done" =>
        /\ Len(segments) = Len(Orig)
        /\ \A k \in 2..Len(Orig) :
              HasClose(Orig[k]) =>
                  segments[k] =
                      Prefix(DeclStack(TokensUpTo(Orig, k))) \o TextOf(Orig[k])
        /\ result = Concat(segments)
        /\ (str = NestedExample => result = NestedRendered)

C1_Witness ==
    /\ pc = "done"
    /\ str = NestedExample
    /\ result = NestedRendered

\* C2: in every state of a parseTags call the stack holds exactly the codes
\* of the open tokens that no later close token has removed, each close
\* token removing the most recent one whatever follows its slash and
\* nothing when there is none; its length is the appends minus the
\* removals, and never negative.
C2_StackDiscipline ==
    /\ Len(stack) >= 0
    /\ Len(stack) = pushes - pops
    /\ pushes = Count(seen, 1, Len(seen), IsOpen)
    /\ pops <= Count(seen, 1, Len(seen), IsClose)
    /\ stack = DeclStack(seen)

\* "[/ b i /b]x": a close on the empty stack, two opens, a close named b
\* that removes i
C2_Witness ==
    /\ pc = "fields"
    /\ tags = <<>>
    /\ seen = << <<"/">>, <<"b">>, <<"i">>, <<"/","b">> >>
    /\ stack = << <<"1">> >>
    /\ pushes = 2
    /\ pops = 1

\* C3 as stated: a segment after a '[' that holds no ']' contributes
\* nothing to the returned string.
C3_SegmentDropped ==
    pc = "done" =>
        result = Concat([k \in 1..Len(Orig) |->
                            IF k > 1 /\ ~HasClose(Orig[k])
                            THEN <<>> ELSE segments[k]])

\* C3, amended: a segment after a '[' that holds no ']' is returned as it
\* is, without the '[' and without an escape prefix, and changes no stack:
\* between segments the stack is what the headers of the closed segments
\* before leave.
C3_SegmentKept ==
    /\ pc = "done" =>
          /\ \A k \in 2..Len(Orig) :
                ~HasClose(Orig[k]) => segments[k] = Orig[k]
          /\ result = Concat(segments)
    /\ pc = "range" => stack = DeclStack(TokensUpTo(Orig, i - 1))

\* "a[b[i]c": the segment "b" has no ']'
C3_Witness ==
    /\ pc = "done"
    /\ str = <<"a","[","b","[","i","]","c">>
    /\ result = <<"a","b",ESC,"[","3","m","c">>

\* C4: parsing the result of parseTags again returns it unchanged.
C4_ReparseUnchanged == (pc = "done" /\ round = 2) => result = first

FixedMarkups ==
    { NumberMarkup(<<"4","2">>), NumberMarkup(<<"-","7">>),
      TrueMarkup, FalseMarkup }

ColorCodeOf(s) ==
    styleMap[SubSeq(s, 2, Index(s, "]") - 1)].Code

ValueTextOf(s) == TextOf(Orig[3])

\* C10: in the parse of the markup of a number or a boolean the token
\* "bold" is no registered name and appends nothing, the value is rendered
\* under the one colour code, and the close token empties the stack, so
\* the last prefix is ESC[m.
C10_NoDanglingStyle ==
    (round = 1 /\ str \in FixedMarkups) =>
        /\ <<"b","o","l","d">> \notin DOMAIN styleMap
        /\ (pc = "fields" /\ Len(seen) = 2 /\ tags = <<>>) =>
              /\ stack = <<ColorCodeOf(str)>>
              /\ pushes = 1
        /\ pc = "done" =>
              /\ stack = <<>>
              /\ pushes = 1 /\ pops = 1
              /\ result = Prefix(<<ColorCodeOf(str)>>)
                          \o Prefix(<<ColorCodeOf(str)>>) \o ValueTextOf(str)
                          \o Prefix(<<>>)

C10_Witness ==
    /\ pc = "done"
    /\ round = 1
    /\ str = NumberMarkup(<<"4","2">>)
    /\ result = <<ESC,"[","3","6","m", ESC,"[","3","6","m","4","2",
                  ESC,"[","m">>

(***************************************************************************)
(* getStyle, and the lookup parseTags makes for a token of the same name.  *)
(* The names asked for are every letter-case variant of every registered   *)
(* name and some names that are not registered.                            *)
(***************************************************************************)
CaseVariants(n) ==
    { [k \in 1..Len(n) |-> IF f[k] THEN ToUpperChar(n[k]) ELSE n[k]] :
          f \in [1..Len(n) -> BOOLEAN] }

StyleQueries ==
    UNION {CaseVariants(styles[k].Name) : k \in 1..Len(styles)}
    \cup { <<"b","o","l","d">>, <<"z","z">>, <<>> }

InitStyle ==
    /\ pc = "start"
    /\ styleName \in StyleQueries
    /\ str = <<>>
    /\ result = <<>>
    /\ ParseIdle
    /\ ColorIdle
    /\ PrintIdle

\* lines 48-53
GetStyle ==
    /\ pc = "start"
    /\ result' = getStyle(styleName)
    /\ pc' = "looked"
    /\ UNCHANGED <<str, parseVars, styleName, colorVars, printVars>>

\* lines 55-84 on the one-tag string "[<name>]"
TagLookup ==
    /\ pc = "start"
    /\ str' = <<"[">> \o styleName \o <<"]">>
    /\ result' = parseTags(<<"[">> \o styleName \o <<"]">>)
    /\ pc' = "tagged"
    /\ UNCHANGED <<parseVars, styleName, colorVars, printVars>>

NextStyle ==
    \/ GetStyle
    \/ TagLookup

SpecStyle == InitStyle /\ [][NextStyle]_vars

Fallback == <<ESC, "[", "3", "7", "m">>

Registered(n) == \E k \in 1..Len(styles) : styles[k].Name = n

CodeOf(n) == styles[CHOOSE k \in 1..Len(styles) : styles[k].Name = n].Code

\* C5 as stated: getStyle returns, for every letter-case variant of a
\* registered name, the escape string of the canonical lowercase name, and
\* the fallback only for names registered in no letter case.
C5_LookupFoldsCase ==
    pc = "looked" =>
        IF Registered(ToLower(styleName))
        THEN result = <<ESC, "[">> \o CodeOf(ToLower(styleName)) \o <<"m">>
        ELSE result = Fallback

\* C5, amended: getStyle matches the name exactly: a registered name as it
\* is spelled in the registry gives ESC[<code>m, every other string, the
\* other letter-case variants of a registered name among them, gives the
\* fallback ESC[37m; the lookup is case-insensitive only in parseTags, which
\* lower-cases a token first: the tag "[<name>]" gives the prefix of the
\* canonical name's code in every letter case, and the empty prefix for a
\* name registered in no letter case.
C5_LookupExact ==
    /\ pc = "looked" =>
          IF Registered(styleName)
          THEN result = <<ESC, "[">> \o CodeOf(styleName) \o <<"m">>
          ELSE result = Fallback
    /\ pc = "tagged" =>
          IF Registered(ToLower(styleName))
          THEN result = <<ESC, "[">> \o CodeOf(ToLower(styleName)) \o <<"m">>
          ELSE result = <<ESC, "[", "m">>

C5_Witness ==
    /\ pc = "looked"
    /\ styleName = <<"R","e","d">>
    /\ result = Fallback

(***************************************************************************)
(* formatString on a plain-text leaf: parseTags, then the keyword passes   *)
(* in whatever order the range over the map takes.  The texts are up to    *)
(* MaxPieces pieces: keywords in several letter cases, one of them spelled *)
(* with the long s, a letter, a space and an opening and a closing tag.    *)
(***************************************************************************)
FormatPieces ==
    { <<"e","r","r","o","r">>, <<"I","n","f","o">>,
      <<"S","U","C","C","E","S","S">>, <<"w","a","r","n","i","n","g">>,
      <<"s","u","c","c","e",LongS,LongS>>,
      <<"s">>, <<" ">>, <<"[","b","]">>, <<"[","/","]">> }

RECURSIVE PieceStrings(_)
PieceStrings(n) ==
    IF n = 0 THEN {<<>>}
    ELSE LET shorter == PieceStrings(n - 1)
         IN  shorter \cup {p \o s : p \in FormatPieces, s \in shorter}

FormatInputs ==
    PieceStrings(MaxPieces)
    \cup { <<"O","p","e","r","a","t","i","o","n"," ">> \o Success,
           Success \o <<"f","u","l">>,
           <<"[","b","]">> \o Error \o <<"[","/","]">> }

InitFormat ==
    /\ pc = "start"
    /\ str \in FormatInputs
    /\ result = <<>>
    /\ ParseIdle
    /\ styleName = <<>>
    /\ ColorIdle
    /\ PrintIdle

\* line 126, the call of parseTags, and lines 91-96
FormatString ==
    /\ pc = "start"
    /\ text' = parseTags(str)
    /\ todo' = DOMAIN keywords
    /\ pc' = "passes"
    /\ UNCHANGED <<str, result, parseVars, styleName, printVars>>

\* lines 98-103, one keyword
Pass ==
    /\ pc = "passes"
    /\ \E keyword \in todo :
          /\ text' = ReplaceAllKeyword(text, keyword)
          /\ todo' = todo \ {keyword}
    /\ UNCHANGED <<pc, str, result, parseVars, styleName, printVars>>

\* line 105
ReturnColored ==
    /\ pc = "passes"
    /\ todo = {}
    /\ result' = text
    /\ pc' = "done"
    /\ UNCHANGED <<str, parseVars, styleName, colorVars, printVars>>

NextFormat ==
    \/ FormatString
    \/ Pass
    \/ ReturnColored

SpecFormat == InitFormat /\ [][NextFormat]_vars

SourceOrder == <<Success, Error, Warning, Info>>

\* a text run with its keywords wrapped, the passes in the order ord
Highlighted(run, ord) == colorizeKeywords(run, ord)

HighlightedSegment(segs, k, ord) ==
    IF k = 1 \/ ~HasClose(segs[k]) THEN Highlighted(segs[k], ord)
    ELSE Prefix(DeclStack(TokensUpTo(segs, k)))
         \o Highlighted(TextOf(segs[k]), ord)

\* C7: formatString wraps every whole-word occurrence of a keyword in the
\* string's text, in any letter case, in the keyword's colour escape and
\* ESC[0m, and no occurrence inside a longer word, wherever in a text run
\* the keyword stands, the first word after a tag included: the result is
\* the rendered string with the keywords of every text run wrapped.
C7_EveryRunHighlighted ==
    pc = "done" =>
        \E ord \in KeywordOrders :
            result = Concat([k \in 1..Len(Orig) |->
                                HighlightedSegment(Orig, k, ord)])

\* C9 as stated: the string colorizeKeywords returns does not depend on the
\* order of the four passes: whatever order the range took, the result is
\* the one of the order success, error, warning, info.
C9_OrderIndependent ==
    pc = "done" => result = colorizeKeywords(parseTags(str), SourceOrder)

\* C9, amended: for a string without the long s (U+017F) the result does
\* not depend on the order of the four passes.
C9_OrderIndependentAscii ==
    (pc = "done" /\ LongS \notin Range(str)) =>
        result = colorizeKeywords(parseTags(str), SourceOrder)

\* "error Info": the passes for info and warning have run, those for
\* error and success have not
C9_Witness ==
    /\ pc = "passes"
    /\ todo = {Error, Success}
    /\ str = <<"e","r","r","o","r"," ","I","n","f","o">>
    /\ text = <<"e","r","r","o","r"," ",
                ESC,"[","3","6","m","I","n","f","o",ESC,"[","0","m">>

(***************************************************************************)
(* The print routine on a list of arguments, an argument a step.  order is *)
(* the order the ranges over the keyword map take during the call.         *)
(***************************************************************************)
SeqsUpTo(S, n) == UNION {[1..k -> S] : k \in 0..n}

ErrorText == <<"e","r","r","o","r">>

Leaves ==
    { IntVal(42), IntVal(-7), BoolVal(TRUE), BoolVal(FALSE),
      StringVal(ErrorText), StringVal(<<"[","b","]","x">>),
      OtherVal(ErrorText), OtherVal(<<"[","1"," ","2","]">>),
      NilVal }

IntSlices == {SliceVal(es) : es \in SeqsUpTo({IntVal(1), IntVal(2), IntVal(3)},
                                              MaxSliceLen)}

MixedElements ==
    { IntVal(1), BoolVal(TRUE), StringVal(ErrorText),
      StringVal(<<"[","b","]","x">>), OtherVal(ErrorText), NilVal,
      SliceVal(<<IntVal(1), IntVal(2)>>), SliceVal(<<>>) }

MixedSlices == {SliceVal(es) : es \in SeqsUpTo(MixedElements, MaxSliceLen - 1)}

Entry(k, v) == [key |-> k, val |-> v]

Maps ==
    { MapVal(es) :
        es \in { e \in SeqsUpTo({ Entry(k, v) :
                                     k \in {StringVal(<<"k">>), IntVal(1)},
                                     v \in {BoolVal(TRUE), StringVal(ErrorText),
                                            NilVal} },
                                MaxSliceLen - 1) :
                     \A a, b \in DOMAIN e : a # b => e[a].key # e[b].key } }

Field(fname, v) == [name |-> fname, val |-> v]

Structs ==
    { StructVal(fs) :
        fs \in { f \in SeqsUpTo({ Field(fname, v) :
                                     fname \in {<<"E","r","r">>, <<"n">>},
                                     v \in {IntVal(1), StringVal(ErrorText)} },
                                MaxSliceLen - 1) :
                     \A a, b \in DOMAIN f : a # b => f[a].name # f[b].name } }

Values == Leaves \cup IntSlices \cup MixedSlices \cup Maps \cup Structs

ArgLists ==
    {<<v>> : v \in Values} \cup {<<u, v>> : u \in Leaves, v \in Leaves}

InitPrint ==
    /\ pc = "args"
    /\ args \in ArgLists
    /\ order \in KeywordOrders
    /\ formattedStrings = <<>>
    /\ output = <<>>
    /\ str = <<>>
    /\ result = <<>>
    /\ ParseIdle
    /\ styleName = <<>>
    /\ ColorIdle

\* the argument the loop of line 182 is at
Arg == args[Len(formattedStrings) + 1]

\* line 203, or the panic leaving the routine
Formatted(r) ==
    /\ IF r.fatal
       THEN pc' = "panic" /\ UNCHANGED formattedStrings
       ELSE pc' = pc /\ formattedStrings' = Append(formattedStrings, r.out)
    /\ UNCHANGED <<str, result, parseVars, styleName, colorVars,
                   args, order, output>>

Pending == pc = "args" /\ Len(formattedStrings) < Len(args)

\* lines 187-188
PrintString ==
    /\ Pending
    /\ Arg.kind = "string"
    /\ Formatted(Ok(formatString(Arg.s, order)))

\* lines 189-190
PrintBool ==
    /\ Pending
    /\ Arg.kind = "bool"
    /\ Formatted(Ok(formatBool(Arg)))

\* lines 191-192
PrintNumber ==
    /\ Pending
    /\ Arg.kind = "int"
    /\ Formatted(Ok(formatNumber(Arg)))

\* lines 193-194
PrintMap ==
    /\ Pending
    /\ Arg.kind = "map"
    /\ Formatted(formatMap(Arg, order))

\* lines 195-196
PrintSlice ==
    /\ Pending
    /\ Arg.kind = "slice"
    /\ Formatted(formatSlice(Arg, order))

\* lines 197-198
PrintStruct ==
    /\ Pending
    /\ Arg.kind = "struct"
    /\ Formatted(formatStruct(Arg, order))

\* lines 199-200
PrintDefault ==
    /\ Pending
    /\ Arg.kind \notin {"string", "bool", "int", "map", "slice", "struct"}
    /\ Formatted(Ok(parseTags(Sprint(Arg))))

\* line 206
PrintLine ==
    /\ pc = "args"
    /\ Len(formattedStrings) = Len(args)
    /\ output' = Join(formattedStrings, <<" ">>) \o <<"\n">>
    /\ pc' = "done"
    /\ UNCHANGED <<str, result, parseVars, styleName, colorVars,
                   args, formattedStrings, order>>

NextPrint ==
    \/ PrintString
    \/ PrintBool
    \/ PrintNumber
    \/ PrintMap
    \/ PrintSlice
    \/ PrintStruct
    \/ PrintDefault
    \/ PrintLine

SpecPrint == InitPrint /\ [][NextPrint]_vars

\* C6: the string the print routine produces for an argument is the one
\* formatValue gives for the same value, for every shape of value, and it
\* panics on an argument exactly when formatValue does.
C6_ArgsViaFormatValue ==
    /\ \A k \in 1..Len(formattedStrings) :
          formatValue(args[k], order) = Ok(formattedStrings[k])
    /\ pc = "panic" => formatValue(Arg, order).fatal

Rendered(v) == formatValue(v, order).out

RECURSIVE TotalLen(_)
TotalLen(ss) == IF ss = <<>> THEN 0 ELSE Len(ss[1]) + TotalLen(Tail(ss))

NumberRendered(digits) ==
    <<ESC,"[","3","6","m", ESC,"[","3","6","m">> \o digits \o <<ESC,"[","m">>

Slice312 == SliceVal(<<IntVal(3), IntVal(1), IntVal(2)>>)

Slice312Rendered ==
    <<"[", " ">> \o NumberRendered(<<"3">>) \o <<",", " ">>
                 \o NumberRendered(<<"1">>) \o <<",", " ">>
                 \o NumberRendered(<<"2">>) \o <<" ", "]">>

\* C8: a slice of n elements is formatted as "[ ", the formatted elements
\* in index order with ", " between consecutive ones and nowhere else (n-1
\* separators, none for n <= 1), then " ]"; [3,1,2] gives the three numbers
\* in that order.
C8_SliceJoined ==
    \A k \in 1..Len(formattedStrings) :
        args[k].kind = "slice" =>
            LET es    == args[k].elems
                parts == [j \in 1..Len(es) |-> Rendered(es[j])]
                seps  == IF Len(es) <= 1 THEN 0 ELSE Len(es) - 1
            IN  /\ formattedStrings[k] =
                      <<"[", " ">> \o Join(parts, <<",", " ">>) \o <<" ", "]">>
                /\ Len(formattedStrings[k]) = 4 + TotalLen(parts) + 2 * seps
                /\ (args[k] = Slice312 => formattedStrings[k] = Slice312Rendered)

C8_Witness ==
    /\ pc = "done"
    /\ args = <<Slice312>>
    /\ output = Slice312Rendered \o <<"\n">>

=============================================================================
